---- MODULE Spec2Model ----
(***************************************************************************)
(* Model of the Medical_RAG ingestion pipeline (1app.py), the extractor    *)
(* (medical_extractor.py), the store (medical_db.py) and the abnormality   *)
(* detector (pages/1_Problems.py).                                         *)
(*                                                                         *)
(* Python strings are sequences of one-character strings.  Two reserved    *)
(* one-element sequences stand for values that are not strings: Null for   *)
(* Python None / JSON null, Absent for a key that is missing from a dict.  *)
(***************************************************************************)
EXTENDS Integers, Sequences, FiniteSets, TLC

VARIABLES
    \* ---- pages/1_Problems.py: one call of get_abnormal_type
    raw_value, normal_range, abn_pc, abn_result, abn_raised,
    \* ---- medical_db.py: the persisted store
    patients, reports, test_results,
    \* ---- medical_db.py: one call of insert_test_results on its own
    db_pc, db_batch,
    \* ---- 1app.py: the "add this document to records" handler
    pc, doc, page_no, all_tests, range_cache, existing_tests, res_idx,
    report_id, authoritative, llm_calls, trail,
    \* ---- medical_db.py: the test_explanations table and the calls made on it
    explanations, exp_pc, exp_hist, exp_got

abn_vars == <<raw_value, normal_range, abn_pc, abn_result, abn_raised>>
store_vars == <<patients, reports, test_results>>
db_vars == <<db_pc, db_batch>>
ingest_vars == <<pc, doc, page_no, all_tests, range_cache, existing_tests,
                 res_idx, report_id, authoritative, llm_calls, trail>>
exp_vars == <<explanations, exp_pc, exp_hist, exp_got>>
vars == <<abn_vars, store_vars, db_vars, ingest_vars, exp_vars>>

(***************************************************************************)
(* Python values and string operations                                     *)
(***************************************************************************)
Null == <<"<None>">>
Absent == <<"<absent>">>
IsStr(s) == s # Null /\ s # Absent

\* dict.get(key): a missing key reads as None
Get(v) == IF v = Absent THEN Null ELSE v
\* dict.get(key, ""): a missing key reads as "", a null stays None
GetOrEmpty(v) == IF v = Absent THEN <<>> ELSE v
\* Python truthiness of a str-or-None
Truthy(v) == v # Null /\ v # Absent /\ v # <<>>
\* (x or "")
OrEmpty(v) == IF Truthy(v) THEN v ELSE <<>>

UpperLetters ==
    <<"A", "B", "C", "D", "E", "F", "G", "H", "I", "J", "K", "L", "M",
      "N", "O", "P", "Q", "R", "S", "T", "U", "V", "W", "X", "Y", "Z">>
LowerLetters ==
    <<"a", "b", "c", "d", "e", "f", "g", "h", "i", "j", "k", "l", "m",
      "n", "o", "p", "q", "r", "s", "t", "u", "v", "w", "x", "y", "z">>

UpperSet == {UpperLetters[i] : i \in 1..26}
LowerSet == {LowerLetters[i] : i \in 1..26}
LowerOf == [c \in UpperSet |-> LowerLetters[CHOOSE i \in 1..26 : UpperLetters[i] = c]]

IsUpperChar(c) == c \in UpperSet
IsLowerChar(c) == c \in LowerSet

LowerChar(c) == IF c \in UpperSet THEN LowerOf[c] ELSE c

\* str.lower()
Lower(s) == [i \in 1..Len(s) |-> LowerChar(s[i])]

IsSpace(c) == c = " "

RECURSIVE LStrip(_)
LStrip(s) == IF s # <<>> /\ IsSpace(Head(s)) THEN LStrip(Tail(s)) ELSE s

RECURSIVE RStrip(_)
RStrip(s) ==
    IF s # <<>> /\ IsSpace(s[Len(s)]) THEN RStrip(SubSeq(s, 1, Len(s) - 1)) ELSE s

\* str.strip()
Strip(s) == RStrip(LStrip(s))

\* str.startswith(p)
StartsWith(s, p) == Len(p) <= Len(s) /\ SubSeq(s, 1, Len(p)) = p

\* p in s
Contains(s, p) ==
    \E i \in 1..(Len(s) - Len(p) + 1) : SubSeq(s, i, i + Len(p) - 1) = p

\* str.replace(p, r): left to right, non-overlapping, p non-empty
RECURSIVE Replace(_, _, _)
Replace(s, p, r) ==
    IF s = <<>> THEN <<>>
    ELSE IF StartsWith(s, p)
         THEN r \o Replace(SubSeq(s, Len(p) + 1, Len(s)), p, r)
         ELSE <<Head(s)>> \o Replace(Tail(s), p, r)

\* str.split(sep) for a one-character sep: always at least one part
RECURSIVE SplitAcc(_, _, _)
SplitAcc(s, sep, cur) ==
    IF s = <<>> THEN <<cur>>
    ELSE IF Head(s) = sep
         THEN <<cur>> \o SplitAcc(Tail(s), sep, <<>>)
         ELSE SplitAcc(Tail(s), sep, Append(cur, Head(s)))

Split(s, sep) == SplitAcc(s, sep, <<>>)

(***************************************************************************)
(* float(): decimal literals.  The texts of this model are built from the  *)
(* characters 0-9 . - < > space and whole words, so exponents, inf, nan    *)
(* and digit-group underscores cannot occur in them.  A parsed number is   *)
(* the exact rational num / den.                                           *)
(***************************************************************************)
Digits == {"0", "1", "2", "3", "4", "5", "6", "7", "8", "9"}

DigitVal(c) ==
    CASE c = "0" -> 0 [] c = "1" -> 1 [] c = "2" -> 2 [] c = "3" -> 3
      [] c = "4" -> 4 [] c = "5" -> 5 [] c = "6" -> 6 [] c = "7" -> 7
      [] c = "8" -> 8 [] c = "9" -> 9

RECURSIVE DigitsVal(_, _)
DigitsVal(s, acc) ==
    IF s = <<>> THEN acc ELSE DigitsVal(Tail(s), 10 * acc + DigitVal(Head(s)))

RECURSIVE Pow10(_)
Pow10(n) == IF n = 0 THEN 1 ELSE 10 * Pow10(n - 1)

NoFloat == [ok |-> FALSE, num |-> 0, den |-> 1]

\* an unsigned decimal: digits with at most one point and at least one digit
UnsignedFloat(s) ==
    LET parts == Split(s, ".")
        allDigits(p) == \A i \in 1..Len(p) : p[i] \in Digits
    IN  IF Len(parts) = 1 /\ parts[1] # <<>> /\ allDigits(parts[1])
        THEN [ok |-> TRUE, num |-> DigitsVal(parts[1], 0), den |-> 1]
        ELSE IF /\ Len(parts) = 2
                /\ parts[1] \o parts[2] # <<>>
                /\ allDigits(parts[1]) /\ allDigits(parts[2])
             THEN [ok |-> TRUE,
                   num |-> DigitsVal(parts[1] \o parts[2], 0),
                   den |-> Pow10(Len(parts[2]))]
             ELSE NoFloat

\* float(s): surrounding whitespace is ignored, one leading sign is allowed;
\* ok = FALSE is a raised ValueError
ParseFloat(s) ==
    LET t == Strip(s)
    IN  IF t = <<>> THEN NoFloat
        ELSE IF Head(t) = "-"
             THEN LET u == UnsignedFloat(Tail(t))
                  IN  [ok |-> u.ok, num |-> 0 - u.num, den |-> u.den]
             ELSE IF Head(t) = "+" THEN UnsignedFloat(Tail(t))
                  ELSE UnsignedFloat(t)

\* a < b on floats
FloatLess(a, b) == a.num * b.den < b.num * a.den

(***************************************************************************)
(* pages/1_Problems.py                                                     *)
(***************************************************************************)
\* parse_value: None for a missing or unparsable value
parse_value(value) ==
    IF value = Null THEN NoFloat
    ELSE ParseFloat(Strip(Replace(Replace(value, <<"H">>, <<>>), <<"L">>, <<>>)))

\* The body of get_abnormal_type's try block.  ret is the value returned,
\* exc = TRUE means an exception left the block (the return is then unused).
Ret(r) == [ret |-> r, exc |-> FALSE]
Exc == [ret |-> "none", exc |-> TRUE]

abnormal_upto(value, rng) ==
    IF Contains(rng, <<"u", "p", "t", "o">>) \/ StartsWith(rng, <<"<">>)
    THEN LET limit == ParseFloat(Replace(Replace(rng, <<"u", "p", "t", "o">>, <<>>),
                                         <<"<">>, <<>>))
         IN  IF ~limit.ok THEN Exc
             ELSE IF FloatLess(limit, value) THEN Ret("high") ELSE Ret("fall")
    ELSE Ret("fall")

abnormal_morethan(value, rng) ==
    IF Contains(rng, <<"m", "o", "r", "e", "t", "h", "a", "n">>) \/ StartsWith(rng, <<">">>)
    THEN LET limit == ParseFloat(Replace(Replace(rng,
                                   <<"m", "o", "r", "e", "t", "h", "a", "n">>, <<>>),
                                   <<">">>, <<>>))
         IN  IF ~limit.ok THEN Exc
             ELSE IF FloatLess(value, limit) THEN Ret("low") ELSE Ret("fall")
    ELSE Ret("fall")

\* abnormal_interval with inclusive comparisons
abnormal_interval_inclusive(value, rng) ==
    IF Contains(rng, <<"-">>)
    THEN LET parts == Split(rng, "-")
         IN  IF Len(parts) # 2 THEN Exc
             ELSE LET low == ParseFloat(parts[1])
                  IN  IF ~low.ok THEN Exc
                      ELSE IF ~FloatLess(low, value) THEN Ret("low")
                      ELSE LET high == ParseFloat(parts[2])
                           IN  IF ~high.ok THEN Exc
                               ELSE IF ~FloatLess(value, high) THEN Ret("high")
                               ELSE Ret("fall")
    ELSE Ret("fall")

abnormal_interval(value, rng) ==
    IF Contains(rng, <<"-">>)
    THEN LET parts == Split(rng, "-")
         IN  IF Len(parts) # 2 THEN Exc      \* low, high = ...: ValueError
             ELSE LET low == ParseFloat(parts[1])
                  IN  IF ~low.ok THEN Exc
                      ELSE IF FloatLess(value, low) THEN Ret("low")
                      ELSE LET high == ParseFloat(parts[2])
                           IN  IF ~high.ok THEN Exc
                               ELSE IF FloatLess(high, value) THEN Ret("high")
                               ELSE Ret("fall")
    ELSE Ret("fall")

abnormal_try_body(value, range) ==
    LET rng == Replace(Lower(range), <<" ">>, <<>>)
        a == abnormal_interval(value, rng)
    IN  IF a.exc \/ a.ret # "fall" THEN a
        ELSE LET b == abnormal_upto(value, rng)
             IN  IF b.exc \/ b.ret # "fall" THEN b
                 ELSE abnormal_morethan(value, rng)

\* except Exception: return None
abnormal_except(r) == IF r.exc THEN Ret("none") ELSE r

\* get_abnormal_type(raw_value, normal_range): "low", "high" or "none" (None)
get_abnormal_type(value_text, range_text) ==
    LET value == parse_value(value_text)
    IN  IF ~value.ok \/ ~Truthy(range_text) THEN Ret("none")
        ELSE LET r == abnormal_except(abnormal_try_body(value, range_text))
             IN  IF r.ret = "fall" THEN [r EXCEPT !.ret = "none"] ELSE r

(***************************************************************************)
(* Inputs of get_abnormal_type: a stored value text and a stored range     *)
(* text.  A range text is a concatenation of at most MaxRangeTokens words. *)
(***************************************************************************)
MaxRangeTokens == 3

RangeTokens ==
    { <<"2">>, <<"1", "0">>, <<"3", ".", "5">>, <<"-">>, <<"<">>, <<">">>,
      <<"u", "p", "t", "o">>, <<"U", "p", "t", "o">>,
      <<"m", "o", "r", "e", "t", "h", "a", "n">>, <<" ">>, <<"x">> }

RECURSIVE Flatten(_)
Flatten(ts) == IF ts = <<>> THEN <<>> ELSE Head(ts) \o Flatten(Tail(ts))

RangeTexts ==
    {Null} \cup
    { Flatten(ts) : ts \in UNION { [1..n -> RangeTokens] : n \in 0..MaxRangeTokens } }

ValueTexts ==
    { Null, <<>>, <<"x">>, <<"1">>, <<"2">>, <<"3", ".", "5">>, <<"7">>,
      <<"1", "0">>, <<"1", "2">>, <<"-", "1">>, <<"1", "2", " ", "H">>,
      <<"1", "L">> }

AbnInit ==
    /\ raw_value \in ValueTexts
    /\ normal_range \in RangeTexts
    /\ abn_pc = "input"
    /\ abn_result = "none"
    /\ abn_raised = FALSE

AbnQuiet ==
    /\ raw_value = Null
    /\ normal_range = Null
    /\ abn_pc = "off"
    /\ abn_result = "none"
    /\ abn_raised = FALSE

\* get_problem_tests calls get_abnormal_type(value, normal_range) on a row
Classify ==
    /\ abn_pc = "input"
    /\ LET r == get_abnormal_type(raw_value, normal_range)
       IN  /\ abn_result' = r.ret
           /\ abn_raised' = r.exc
    /\ abn_pc' = "classified"
    /\ UNCHANGED <<raw_value, normal_range, store_vars, db_vars, ingest_vars, exp_vars>>

(***************************************************************************)
(* medical_db.py: the persisted store.  patients and reports are sequences *)
(* whose index is the AUTOINCREMENT id; test_results is the sequence of    *)
(* rows in insertion order.  An extracted test is a dict with the keys     *)
(* test_name, test_context, value, unit, reference_range, each a string,   *)
(* Null or Absent; range_src is a ghost tag naming where the range text    *)
(* came from ("extractor", "recovered" or "none").                         *)
(***************************************************************************)
Test(n, c, v, u, r) ==
    [test_name |-> n, test_context |-> c, value |-> v, unit |-> u,
     reference_range |-> r,
     range_src |-> IF Truthy(r) THEN "extractor" ELSE "none"]

\* the row insert_test_results builds from one dict (lines 131-141)
RowOf(rid, t) ==
    [report_id |-> rid,
     test_name |-> Lower(Strip(OrEmpty(Get(t.test_name)))),
     test_context |-> Lower(Strip(OrEmpty(Get(t.test_context)))),
     value |-> Strip(OrEmpty(Get(t.value))),
     unit |-> Strip(OrEmpty(Get(t.unit))),
     normal_range |-> Strip(OrEmpty(Get(t.reference_range)))]

\* RowSkipped testing the name alone
RowSkipped_name_only(row) == row.test_name = <<>>

\* if not test_name or not value: continue
RowSkipped(row) == row.test_name = <<>> \/ row.value = <<>>

\* insert_test_results(report_id, tests): the rows after the call
RECURSIVE insert_test_results(_, _, _)
insert_test_results(rows, rid, tests) ==
    IF tests = <<>> THEN rows
    ELSE LET row == RowOf(rid, Head(tests))
         IN  insert_test_results(
                 IF RowSkipped(row) THEN rows ELSE Append(rows, row),
                 rid, Tail(tests))

\* get_or_create_patient(name): <<patients after, patient_id>>
get_or_create_patient(ps, name) ==
    IF \E i \in 1..Len(ps) : ps[i] = name
    THEN <<ps, CHOOSE i \in 1..Len(ps) : ps[i] = name>>
    ELSE <<Append(ps, name), Len(ps) + 1>>

\* insert_report(patient_id, report_date, source_file): <<reports after, report_id>>
insert_report(rs, pid, date) ==
    <<Append(rs, [patient_id |-> pid, report_date |-> date]), Len(rs) + 1>>

(***************************************************************************)
(* insert_test_results called on its own with arbitrary batches            *)
(***************************************************************************)
MaxBatch == 2
MaxRows == 4

BatchNames == { Absent, <<>>, <<" ">>, <<"A", " ">> }
BatchValues == { Null, <<>>, <<" ">>, <<" ", "5">> }
BatchReportIds == {1, 2}

BatchTests == { Test(n, <<>>, v, <<>>, <<>>) : n \in BatchNames, v \in BatchValues }

Batches == UNION { [1..n -> BatchTests] : n \in 0..MaxBatch }

StoreEmpty ==
    /\ patients = <<>>
    /\ reports = <<>>
    /\ test_results = <<>>

DbInit ==
    /\ db_pc = "ready"
    /\ db_batch = [size |-> 0, kept |-> 0, before |-> 0]

DbQuiet ==
    /\ db_pc = "off"
    /\ db_batch = [size |-> 0, kept |-> 0, before |-> 0]

\* an observation the store must keep: name and value both present and not blank
Blank(v) == ~IsStr(v) \/ \A i \in 1..Len(v) : v[i] = " "
Keepable(t) == ~Blank(t.test_name) /\ ~Blank(t.value)

DbInsert ==
    /\ db_pc \in {"ready", "inserted"}
    /\ \E rid \in BatchReportIds, b \in Batches :
          /\ Len(test_results) + Len(b) <= MaxRows
          /\ test_results' = insert_test_results(test_results, rid, b)
          /\ db_batch' = [size |-> Len(b),
                          kept |-> Cardinality({i \in 1..Len(b) : Keepable(b[i])}),
                          before |-> Len(test_results)]
    /\ db_pc' = "inserted"
    /\ UNCHANGED <<patients, reports, abn_vars, ingest_vars, exp_vars>>

(***************************************************************************)
(* 1app.py: TestClassifier                                                 *)
(***************************************************************************)
\* A call that may raise: val is the value, exc = TRUE an exception
Val(v) == [val |-> v, exc |-> FALSE]
Raised == [val |-> <<>>, exc |-> TRUE]

S_ratio == <<"r", "a", "t", "i", "o">>

\* classify_test_type(test_name, unit): None.lower() raises AttributeError;
\* unit.lower() is evaluated only when the name holds no "/"
classify_test_type(test_name, unit) ==
    IF ~IsStr(test_name) THEN Raised
    ELSE IF Contains(Lower(test_name), <<"/">>) THEN Val("ratio")
    ELSE IF ~IsStr(unit) THEN Raised
    ELSE IF Lower(unit) = S_ratio THEN Val("ratio")
    ELSE Val("concentration")

ThyroidWords == { <<"t","h","y","r","o","i","d">>, <<"t","s","h">>, <<"t","3">>, <<"t","4">> }
LipidWords ==
    { <<"c","h","o","l","e","s","t","e","r","o","l">>,
      <<"t","r","i","g","l","y","c","e","r","i","d","e">>,
      <<"h","d","l">>, <<"l","d","l">>, <<"v","l","d","l">>, <<"l","i","p","i","d">> }
LiverWords == { <<"b","i","l","i","r","u","b","i","n">>, <<"l","i","v","e","r">> }

\* extract_panel(test_name)
extract_panel(test_name) ==
    IF ~IsStr(test_name) THEN Raised
    ELSE LET n == Lower(test_name)
         IN  IF \E w \in ThyroidWords : Contains(n, w) THEN Val("thyroid")
             ELSE IF \E w \in LipidWords : Contains(n, w) THEN Val("lipid")
             ELSE IF \E w \in LiverWords : Contains(n, w) THEN Val("liver")
             ELSE Val("unknown")

(***************************************************************************)
(* medical_extractor.py                                                    *)
(***************************************************************************)
\* re.sub(r"\s+", " ", name)
RECURSIVE CollapseSpaces(_)
CollapseSpaces(s) ==
    IF s = <<>> THEN <<>>
    ELSE IF IsSpace(Head(s))
         THEN <<" ">> \o CollapseSpaces(LStrip(s))
         ELSE <<Head(s)>> \o CollapseSpaces(Tail(s))

\* normalize_test_name(name)
normalize_test_name(name) ==
    Strip(Replace(Replace(CollapseSpaces(Lower(name)), <<" ", ",">>, <<",">>),
                  <<",", " ">>, <<",">>))

\* lines 118-120: the name of every test with a truthy name is normalised
NormalizeTests(tests) ==
    [i \in 1..Len(tests) |->
        IF Truthy(tests[i].test_name)
        THEN [tests[i] EXCEPT !.test_name = normalize_test_name(tests[i].test_name)]
        ELSE tests[i]]

\* extract_tests_from_page, lines 98-125, on the outcome of the HTTP call.
\* The status code of the response is never read.
\*   conn_error, timeout : requests raises a RequestException (caught, line 108)
\*   http                : a response arrived; line 111 reads res.json() outside
\*                         any try block
extract_tests_from_page(resp) ==
    IF resp.kind \in {"conn_error", "timeout"} THEN Val(<<>>)
    ELSE \* raw = res.json().get("response", "").strip()
         IF resp.body = "not_json" THEN Raised            \* JSONDecodeError
         ELSE IF resp.body = "json_array" THEN Raised     \* list has no .get
         ELSE IF resp.body = "response_null" THEN Raised  \* None has no .strip
         ELSE IF resp.body = "no_response_key" THEN Val(<<>>)   \* json.loads("")
         ELSE \* body is an object whose "response" is the string raw
              IF resp.raw = "not_json" THEN Val(<<>>)
              ELSE IF resp.raw = "json_array" THEN Val(<<>>)    \* parsed.get
              ELSE IF resp.raw = "no_tests_key" THEN Val(<<>>)  \* default []
              ELSE IF resp.raw = "tests_null" THEN Val(<<>>)    \* for t in None
              ELSE Val(NormalizeTests(resp.tests))

\* extract_patient_info: the patient_name of the result, from group 1 of the
\* "Patient Name" match (Absent: the pattern did not match)
extract_patient_info(name_group) ==
    IF name_group = Absent THEN Null ELSE Lower(Strip(name_group))

(***************************************************************************)
(* 1app.py: recover_ranges_from_text.  A page text is the sequence of its  *)
(* lines.  The two characters outside ASCII that the patterns name are the *)
(* one-character strings EnDash and LessEq.                                *)
(***************************************************************************)
EnDash == "<en dash>"
LessEq == "<less-or-equal sign>"

\* str.isupper(): some cased character, and no lower-case one
IsUpper(s) ==
    /\ \E i \in 1..Len(s) : IsUpperChar(s[i])
    /\ \A i \in 1..Len(s) : ~IsLowerChar(s[i])

\* the position after the longest run of characters of set cs from position i
RECURSIVE RunEnd(_, _, _)
RunEnd(s, i, cs) ==
    IF i <= Len(s) /\ s[i] \in cs THEN RunEnd(s, i + 1, cs) ELSE i

\* \d+(\.\d+)? at position i: the position after the match, 0 for no match.
\* Both parts are greedy; a shorter match is followed by a digit or a point,
\* which no pattern of this file accepts next.
NumberEnd(s, i) ==
    LET j == RunEnd(s, i, Digits)
    IN  IF j = i THEN 0
        ELSE IF j <= Len(s) /\ s[j] = "." /\ RunEnd(s, j + 1, Digits) > j + 1
             THEN RunEnd(s, j + 1, Digits)
             ELSE j

\* the same with the fraction left out, the alternative the matcher tries next
IntegerEnd(s, i) ==
    LET j == RunEnd(s, i, Digits) IN IF j = i THEN 0 ELSE j

\* the rest of (\d+(\.\d+)?)\s*[-]\s*(\d+(\.\d+)?) after a first number that
\* ends before position j: the position after the match, 0 for no match
IntervalRest(s, j) ==
    LET d == RunEnd(s, j, {" "})
    IN  IF d <= Len(s) /\ s[d] \in {"-", EnDash}
        THEN NumberEnd(s, RunEnd(s, d + 1, {" "}))
        ELSE 0

IntervalEndAt(s, i) ==
    IF NumberEnd(s, i) = 0 THEN 0
    ELSE IF IntervalRest(s, NumberEnd(s, i)) # 0 THEN IntervalRest(s, NumberEnd(s, i))
    ELSE IntervalRest(s, IntegerEnd(s, i))

\* re.search of the interval pattern: group(0), or Absent
SearchInterval(s) ==
    LET starts == {i \in 1..Len(s) : IntervalEndAt(s, i) # 0}
    IN  IF starts = {} THEN Absent
        ELSE LET i == CHOOSE x \in starts : \A y \in starts : x <= y
             IN  SubSeq(s, i, IntervalEndAt(s, i) - 1)

S_upto == <<"u", "p", "t", "o">>

\* (upto|<|<=) at position i, case-insensitive: the position after it, or 0
LimitWordEnd(s, i) ==
    IF i + 3 <= Len(s) /\ Lower(SubSeq(s, i, i + 3)) = S_upto THEN i + 4
    ELSE IF i <= Len(s) /\ s[i] \in {"<", LessEq} THEN i + 1
    ELSE 0

LimitEndAt(s, i) ==
    IF LimitWordEnd(s, i) = 0 THEN 0
    ELSE NumberEnd(s, RunEnd(s, LimitWordEnd(s, i), {" "}))

\* re.search of the limit pattern: f"{group(1)} {group(2)}", or Absent
SearchLimit(s) ==
    LET starts == {i \in 1..Len(s) : LimitEndAt(s, i) # 0}
    IN  IF starts = {} THEN Absent
        ELSE LET i == CHOOSE x \in starts : \A y \in starts : x <= y
                 w == LimitWordEnd(s, i)
             IN  SubSeq(s, i, w - 1) \o <<" ">>
                 \o SubSeq(s, RunEnd(s, w, {" "}), LimitEndAt(s, i) - 1)

UnitWords ==
    { <<"m","g","/","d","l">>, <<"u","g","/","d","l">>, <<"n","g","/","m","l">>,
      <<"u","i","u","/","m","l">>, S_ratio }

\* re.search of the unit pattern, re.I: group(1).lower(), or "" for no match
SearchUnit(s) ==
    LET n == Lower(s)
        at(i) == {w \in UnitWords : StartsWith(SubSeq(n, i, Len(n)), w)}
        starts == {i \in 1..Len(n) : at(i) # {}}
    IN  IF starts = {} THEN <<>>
        ELSE LET i == CHOOSE x \in starts : \A y \in starts : x <= y
             IN  CHOOSE w \in at(i) : TRUE

S_METHOD == <<"M", "E", "T", "H", "O", "D">>
S_PROFILE == <<"P", "R", "O", "F", "I", "L", "E">>

IsHeading(line) ==
    /\ Len(line) > 8
    /\ IsUpper(line)
    /\ ~Contains(line, S_METHOD) /\ ~Contains(line, S_PROFILE)

\* a dict as a function: d[k] = v added or replaced
Put(d, k, v) == [x \in DOMAIN d \cup {k} |-> IF x = k THEN v ELSE d[x]]
EmptyDict == [x \in {} |-> <<>>]

\* the loop of lines 71-97 over the stripped, non-blank lines
RECURSIVE RecoverLoop(_, _, _)
RecoverLoop(lines, current_test, recovered) ==
    IF lines = <<>> THEN recovered
    ELSE LET line == Head(lines)
             key == <<current_test, SearchUnit(line)>>
         IN  IF IsHeading(line)
             THEN RecoverLoop(Tail(lines), Lower(line), recovered)
             ELSE IF ~Truthy(current_test)
             THEN RecoverLoop(Tail(lines), current_test, recovered)
             ELSE IF SearchInterval(line) # Absent
             THEN RecoverLoop(Tail(lines), current_test,
                              Put(recovered, key, SearchInterval(line)))
             ELSE IF SearchLimit(line) # Absent
             THEN RecoverLoop(Tail(lines), current_test,
                              Put(recovered, key, SearchLimit(line)))
             ELSE RecoverLoop(Tail(lines), current_test, recovered)

\* recover_ranges_from_text(page_text)
recover_ranges_from_text(page_text) ==
    LET stripped == [i \in 1..Len(page_text) |-> Strip(page_text[i])]
    IN  RecoverLoop(SelectSeq(stripped, LAMBDA l : l # <<>>), Null, EmptyDict)

(***************************************************************************)
(* 1app.py: PageMerger (lines 204-227)                                     *)
(***************************************************************************)
\* key = ((t["test_name"] or "").lower(), (t.get("unit") or "").lower())
MergeKey(t) == <<Lower(OrEmpty(t.test_name)), Lower(OrEmpty(Get(t.unit)))>>

\* One pass of the loop of lines 215-220 over a page's tests.  A cache entry
\* is the range text with a ghost tag src naming who supplied it.  auth is
\* the ghost set of keys the extractor has supplied a range for.
\* t["test_name"] on a dict without that key raises KeyError.
RECURSIVE MergeLoop(_, _, _, _)
MergeLoop(tests, recovered, cache, auth) ==
    IF tests = <<>> THEN [cache |-> cache, auth |-> auth, exc |-> FALSE]
    ELSE LET t == Head(tests)
             key == MergeKey(t)
         IN  IF t.test_name = Absent
             THEN [cache |-> cache, auth |-> auth, exc |-> TRUE]
             ELSE IF Truthy(Get(t.reference_range))
             THEN MergeLoop(Tail(tests), recovered,
                            Put(cache, key, [text |-> t.reference_range,
                                             src |-> "extractor"]),
                            auth \cup {key})
             ELSE IF key \in DOMAIN recovered
             THEN MergeLoop(Tail(tests), recovered,
                            Put(cache, key, [text |-> recovered[key],
                                             src |-> "recovered"]),
                            auth)
             ELSE MergeLoop(Tail(tests), recovered, cache, auth)

\* the second pass, lines 224-227
SecondPass(tests, cache) ==
    [i \in 1..Len(tests) |->
        IF ~Truthy(Get(tests[i].reference_range)) /\ MergeKey(tests[i]) \in DOMAIN cache
        THEN [tests[i] EXCEPT !.reference_range = cache[MergeKey(tests[i])].text,
                              !.range_src = cache[MergeKey(tests[i])].src]
        ELSE tests[i]]

(***************************************************************************)
(* 1app.py: IdentityResolver                                               *)
(***************************************************************************)
\* get_existing_tests_for_patient(patient_name): the DISTINCT (test_name,
\* unit) pairs of the patient's rows, each with its type and panel
get_existing_tests_for_patient(ps, rs, rows, patient_name) ==
    { [name |-> rows[i].test_name,
       unit |-> rows[i].unit,
       type |-> classify_test_type(rows[i].test_name, rows[i].unit).val,
       panel |-> extract_panel(rows[i].test_name).val] :
      i \in { j \in 1..Len(rows) :
                /\ rows[j].report_id \in 1..Len(rs)
                /\ rs[rows[j].report_id].patient_id \in 1..Len(ps)
                /\ ps[rs[rows[j].report_id].patient_id] = patient_name } }

\* MATCH_CONFIDENCE_THRESHOLD = 0.9; confidences are counted in hundredths
MATCH_CONFIDENCE_THRESHOLD == 90

S_no_match == <<"n", "o", "_", "m", "a", "t", "c", "h">>

\* float(out.get("confidence", 0)): a missing key reads 0, None raises
\* TypeError, a text that is no number raises ValueError
ConfidenceFloat(c) ==
    IF c.kind = "absent" THEN Val(0)
    ELSE IF c.kind = "num" THEN Val(c.num)
    ELSE [val |-> 0, exc |-> TRUE]

\* match_accepted without the confidence condition
match_accepted_no_gate(out) ==
    IF ~Truthy(Get(out.match)) THEN Val(Null)
    ELSE IF out.match = S_no_match THEN Val(Null)
    ELSE Val(out.match)

\* lines 162-169 on the parsed object out: the name returned, Null for None.
\* The three conditions are evaluated left to right and stop at the first
\* that is false.
match_accepted(out) ==
    IF ~Truthy(Get(out.match)) THEN Val(Null)
    ELSE IF out.match = S_no_match THEN Val(Null)
    ELSE IF ConfidenceFloat(out.confidence).exc THEN Raised
    ELSE IF ConfidenceFloat(out.confidence).val >= MATCH_CONFIDENCE_THRESHOLD
         THEN Val(out.match)
         ELSE Val(Null)

\* lines 152-160: Exception caught, None returned
\*   conn_error, timeout : requests.post raises
\*   not_json            : res.json() raises
\*   no_response_key     : res.json()["response"] raises KeyError
\*   raw_not_json        : json.loads raises
\* raw_not_object: json.loads gives a list, a number, a string or null, and
\* out.get (line 163, outside the try block) raises AttributeError
match_parse(resp) ==
    IF resp.kind \in {"conn_error", "timeout", "not_json", "no_response_key",
                      "raw_not_json"}
    THEN Val(Null)
    ELSE IF resp.kind = "raw_not_object" THEN Raised
    ELSE match_accepted(resp.out)

\* ai_match_test_name(new_test, existing_tests) with resp the outcome of the
\* HTTP call, made only when there are candidates
ai_match_test_name(candidates, resp) ==
    IF candidates = {} THEN Val(Null) ELSE match_parse(resp)

\* CandidateOk without the unit condition
CandidateOk_no_unit(et, ty, pn, unit) ==
    /\ et.type = ty
    /\ et.panel = pn

\* lines 240-245: the candidates of a new test of type ty, panel pn and unit
CandidateOk(et, ty, pn, unit) ==
    /\ et.type = ty
    /\ et.panel = pn
    /\ Lower(et.unit) = Lower(unit)

\* new_test["unit"].lower() is reached, and raises on None, as soon as one
\* historical test agrees in type and panel
Candidates(existing, ty, pn, unit) ==
    IF ~IsStr(unit)
    THEN IF \E et \in existing : et.type = ty /\ et.panel = pn
         THEN Raised ELSE Val({})
    ELSE Val({et \in existing : CandidateOk(et, ty, pn, unit)})

(***************************************************************************)
(* Inputs of the ingestion handler                                         *)
(***************************************************************************)
MaxPages == 2
MaxTests == 2

S_cholesterol == <<"c","h","o","l","e","s","t","e","r","o","l">>
S_Cholesterol == <<"C","h","o","l","e","s","t","e","r","o","l">>
S_total_cholesterol == <<"t","o","t","a","l"," ">> \o S_cholesterol
S_chol_hdl == <<"c","h","o","l","/","h","d","l">>
S_Chol_HDL == <<"C","h","o","l"," ","/","H","D","L">>
S_tsh == <<"t","s","h">>
S_hdl == <<"h","d","l">>
S_mgdl == <<"m","g","/","d","l">>
S_mgdL == <<"m","g","/","d","L">>
S_gl == <<"g","/","l">>
S_180 == <<"1","8","0">>
S_125_200 == <<"1","2","5","-","2","0","0">>
S_jo == <<"j","o">>
S_zz == <<"z","z">>

\* what the extraction LLM may put into one element of "tests"
T_auth == Test(S_Cholesterol, <<>>, S_180, S_mgdL, S_125_200)
T_bare == Test(S_Cholesterol, <<>>, S_180, S_mgdL, <<>>)
T_ratio == Test(S_Chol_HDL, <<>>, <<"3">>, Null, Absent)
T_nullname == Test(Null, <<>>, <<"5">>, S_mgdL, <<>>)
T_nokey == Test(Absent, <<>>, <<"5">>, S_mgdL, <<>>)

TestDicts == {T_auth, T_bare, T_ratio, T_nullname, T_nokey}

\* outcomes of the HTTP call of extract_tests_from_page
ExtractFailures ==
    { [kind |-> "conn_error", status |-> 0, body |-> "none", raw |-> "none", tests |-> <<>>],
      [kind |-> "timeout", status |-> 0, body |-> "none", raw |-> "none", tests |-> <<>>],
      [kind |-> "http", status |-> 500, body |-> "not_json", raw |-> "none", tests |-> <<>>],
      [kind |-> "http", status |-> 500, body |-> "no_response_key", raw |-> "none", tests |-> <<>>],
      [kind |-> "http", status |-> 200, body |-> "json_array", raw |-> "none", tests |-> <<>>],
      [kind |-> "http", status |-> 200, body |-> "response_null", raw |-> "none", tests |-> <<>>],
      [kind |-> "http", status |-> 200, body |-> "response", raw |-> "not_json", tests |-> <<>>],
      [kind |-> "http", status |-> 200, body |-> "response", raw |-> "json_array", tests |-> <<>>],
      [kind |-> "http", status |-> 200, body |-> "response", raw |-> "no_tests_key", tests |-> <<>>],
      [kind |-> "http", status |-> 200, body |-> "response", raw |-> "tests_null", tests |-> <<>>] }

ExtractSuccesses(n) ==
    { [kind |-> "http", status |-> 200, body |-> "response", raw |-> "tests", tests |-> ts] :
      ts \in UNION { [1..k -> TestDicts] : k \in 0..n } }

\* page texts, as lines
PageTexts ==
    { <<>>,
      << <<"C","H","O","L","E","S","T","E","R","O","L">>,
         <<" ","1","8","0"," ","m","g","/","d","L"," ","1","0","0"," ","-"," ","1","9","9">> >>,
      << <<"L","I","P","I","D"," ","P","R","O","F","I","L","E">>,
         <<"1","0","0","-","1","9","9">> >>,
      << <<"C","H","O","L","E","S","T","E","R","O","L">>,
         <<"m","g","/","d","l"," ","U","p","t","o"," ","2","0","0">> >> }

\* group 1 of the "Patient Name" match: none, blank, or a name
NameGroups == { Absent, <<" ">>, <<"J", "o", " ">> }

\* outcomes of the HTTP call of ai_match_test_name
Conf(k, n) == [kind |-> k, num |-> n]
Confidences ==
    { Conf("absent", 0), Conf("text", 0), Conf("num", 89), Conf("num", 90) }
MatchNames == { Absent, <<>>, S_no_match, S_total_cholesterol, S_zz }
NoOut == [match |-> Absent, confidence |-> Conf("absent", 0)]
MatchResponses ==
    { [kind |-> k, out |-> NoOut] :
        k \in {"conn_error", "timeout", "not_json", "no_response_key",
               "raw_not_json", "raw_not_object"} }
    \cup
    { [kind |-> "object", out |-> [match |-> m, confidence |-> c]] :
        m \in MatchNames, c \in Confidences }

\* rows an earlier ingestion for patient "jo" (report 1) has persisted
Row(n, u) ==
    [report_id |-> 1, test_name |-> n, test_context |-> <<>>, value |-> <<"1">>,
     unit |-> u, normal_range |-> <<>>]
R_ok == Row(S_total_cholesterol, S_mgdl)
R_ratio == Row(S_chol_hdl, S_mgdl)
R_panel == Row(S_tsh, S_mgdl)
R_unit == Row(S_hdl, S_gl)

Histories ==
    { <<R_ratio, R_panel, R_unit>>, <<R_ok, R_ratio, R_panel, R_unit>> }

\* a new database, or the database an earlier ingestion has left
StoreInit ==
    \/ StoreEmpty
    \/ /\ patients = <<S_jo>>
       /\ reports = <<[patient_id |-> 1, report_date |-> Null]>>
       /\ test_results \in Histories

NoExt == [fail |-> "none", raised |-> FALSE, n |-> 0]
NoRes ==
    [idx |-> 0, before |-> Null, after |-> Null, unit |-> Null,
     type |-> "none", panel |-> "none", candidates |-> {}, invoked |-> FALSE,
     calls |-> 0, resp |-> [kind |-> "none", out |-> NoOut],
     matched |-> Null, raised |-> FALSE]
NoDoc == [text_read |-> FALSE, name_group |-> Absent, patient_name |-> Null]

IngestInit ==
    /\ pc = "idle"
    /\ doc = NoDoc
    /\ page_no = 0
    /\ all_tests = <<>>
    /\ range_cache = EmptyDict
    /\ existing_tests = {}
    /\ res_idx = 0
    /\ report_id = 0
    /\ authoritative = {}
    /\ llm_calls = 0
    /\ trail = [store0 |-> <<patients, reports, test_results>>,
                ext |-> NoExt, res |-> NoRes, crash |-> "none"]

IngestQuiet ==
    /\ pc = "off"
    /\ doc = NoDoc
    /\ page_no = 0
    /\ all_tests = <<>>
    /\ range_cache = EmptyDict
    /\ existing_tests = {}
    /\ res_idx = 0
    /\ report_id = 0
    /\ authoritative = {}
    /\ llm_calls = 0
    /\ trail = [store0 |-> <<patients, reports, test_results>>,
                ext |-> NoExt, res |-> NoRes, crash |-> "none"]

(***************************************************************************)
(* The "add this document to records" handler (1app.py lines 191-253), one *)
(* action per stretch of code between two calls to the outside.            *)
(***************************************************************************)
\* PatientMissing testing for None alone
PatientMissing_none_only(name) == name = Null

\* line 195: if not patient_info.get("patient_name")
PatientMissing(name) == ~Truthy(name)

Crash(where) ==
    /\ pc' = "crashed"
    /\ trail' = [trail EXCEPT !.crash = where]

\* Lines 186-202.  full_text is None when "read this document" was never
\* pressed, and re.search then raises TypeError.
AddDocument ==
    /\ pc = "idle"
    /\ \E read \in BOOLEAN, g \in NameGroups :
          LET name == extract_patient_info(g)
              gp == get_or_create_patient(patients, name)
              ir == insert_report(reports, gp[2], Null)
          IN  IF ~read
              THEN /\ doc' = NoDoc
                   /\ Crash("patient_info")
                   /\ UNCHANGED <<store_vars, page_no, report_id>>
              ELSE /\ doc' = [text_read |-> TRUE, name_group |-> g,
                              patient_name |-> name]
                   /\ IF PatientMissing(name)
                      THEN /\ pc' = "halted"             \* st.error; st.stop()
                           /\ UNCHANGED <<store_vars, page_no, report_id, trail>>
                      ELSE /\ patients' = gp[1]
                           /\ reports' = ir[1]
                           /\ report_id' = ir[2]
                           /\ page_no' = 1
                           /\ pc' = "pages"
                           /\ UNCHANGED <<test_results, trail>>
    /\ UNCHANGED <<all_tests, range_cache, existing_tests, res_idx,
                   authoritative, llm_calls, abn_vars, db_vars, exp_vars>>

\* what the extraction call did, for the record
ExtFail(resp) ==
    IF resp.kind # "http" THEN resp.kind
    ELSE IF resp.body # "response" THEN "body_" \o resp.body
    ELSE IF resp.raw # "tests" THEN "raw_" \o resp.raw
    ELSE "none"

\* Every page text with the ranges recover_ranges_from_text finds in it, and
\* every outcome of the extraction call with what extract_tests_from_page
\* makes of it (with at most n tests): the inputs of one turn of the page loop.
PageInputs ==
    { [text |-> text, recovered |-> recover_ranges_from_text(text)] : text \in PageTexts }

ExtractInputs ==
    [n \in 0..MaxTests |->
        { [resp |-> resp, ex |-> extract_tests_from_page(resp)] :
          resp \in ExtractFailures \cup ExtractSuccesses(n) }]

\* One turn of the loop of lines 207-222, over the next page of a document
\* of at most MaxPages pages.
ProcessPage ==
    /\ pc = "pages"
    /\ page_no <= MaxPages
    /\ \E page \in PageInputs :
          IF page.text = <<>>
          THEN \* if not text: continue
               /\ page_no' = page_no + 1
               /\ UNCHANGED <<pc, all_tests, range_cache, authoritative, trail>>
          ELSE \E call \in ExtractInputs[MaxTests - Len(all_tests)] :
               LET ex == call.ex
                   m == MergeLoop(ex.val, page.recovered, range_cache, authoritative)
                   rec == [fail |-> ExtFail(call.resp), raised |-> ex.exc,
                           n |-> IF ex.exc THEN 0 ELSE Len(ex.val)]
               IN  IF ex.exc
                   THEN /\ pc' = "crashed"
                        /\ trail' = [trail EXCEPT !.crash = "extract", !.ext = rec]
                        /\ UNCHANGED <<page_no, all_tests, range_cache, authoritative>>
                   ELSE IF m.exc
                   THEN /\ pc' = "crashed"
                        /\ trail' = [trail EXCEPT !.crash = "merge_key", !.ext = rec]
                        /\ range_cache' = m.cache
                        /\ authoritative' = m.auth
                        /\ UNCHANGED <<page_no, all_tests>>
                   ELSE /\ range_cache' = m.cache
                        /\ authoritative' = m.auth
                        /\ all_tests' = all_tests \o ex.val
                        /\ page_no' = page_no + 1
                        /\ trail' = [trail EXCEPT !.ext = rec]
                        /\ UNCHANGED pc
    /\ UNCHANGED <<doc, existing_tests, res_idx, report_id, llm_calls,
                   store_vars, abn_vars, db_vars, exp_vars>>

\* Lines 224-230, once reader.pages has no further page: the second pass,
\* then the patient's vocabulary is read.
FinishMerge ==
    /\ pc = "pages"
    /\ all_tests' = SecondPass(all_tests, range_cache)
    /\ existing_tests' = get_existing_tests_for_patient(patients, reports,
                                                        test_results, doc.patient_name)
    /\ res_idx' = 1
    /\ pc' = "resolve"
    /\ trail' = [trail EXCEPT !.ext = NoExt]
    /\ UNCHANGED <<doc, page_no, range_cache, report_id, authoritative, llm_calls,
                   store_vars, abn_vars, db_vars, exp_vars>>

\* The signature lines 236-237 compute for every name and unit the extractor
\* can hand over: classify_test_type and extract_panel, tabulated.
ExtractedNames == { NormalizeTests(<<d>>)[1].test_name : d \in TestDicts }
ExtractedUnits == { GetOrEmpty(d.unit) : d \in TestDicts }
Signature ==
    [n \in ExtractedNames, u \in ExtractedUnits |->
        [type |-> classify_test_type(n, u), panel |-> extract_panel(n)]]

\* One turn of the loop of lines 232-249.
ResolveTest ==
    /\ pc = "resolve"
    /\ res_idx <= Len(all_tests)
    /\ LET t == all_tests[res_idx]
           unit == GetOrEmpty(t.unit)
           ty == Signature[t.test_name, unit].type
           pn == Signature[t.test_name, unit].panel
           cands == Candidates(existing_tests, ty.val, pn.val, unit)
           rec0 == [NoRes EXCEPT !.idx = res_idx, !.before = t.test_name,
                                 !.after = t.test_name, !.unit = unit]
       IN  IF ty.exc \/ pn.exc
           THEN /\ pc' = "crashed"
                /\ trail' = [trail EXCEPT !.crash = "classify", !.res = rec0]
                /\ UNCHANGED <<all_tests, res_idx, llm_calls>>
           ELSE IF cands.exc
           THEN /\ pc' = "crashed"
                /\ trail' = [trail EXCEPT !.crash = "candidates",
                                !.res = [rec0 EXCEPT !.type = ty.val, !.panel = pn.val]]
                /\ UNCHANGED <<all_tests, res_idx, llm_calls>>
           ELSE \E resp \in (IF cands.val = {} THEN {[kind |-> "none", out |-> NoOut]}
                             ELSE MatchResponses) :
                LET matched == ai_match_test_name(cands.val, resp)
                    rec == [rec0 EXCEPT !.type = ty.val, !.panel = pn.val,
                                        !.candidates = cands.val,
                                        !.invoked = (cands.val # {}),
                                        !.calls = IF cands.val # {} THEN 1 ELSE 0,
                                        !.resp = resp,
                                        !.matched = IF matched.exc THEN Null ELSE matched.val,
                                        !.raised = matched.exc]
                IN  /\ llm_calls' = llm_calls + rec.calls
                    /\ IF matched.exc
                       THEN /\ pc' = "crashed"
                            /\ trail' = [trail EXCEPT !.crash = "matcher", !.res = rec]
                            /\ UNCHANGED <<all_tests, res_idx>>
                       ELSE /\ all_tests' =
                                 IF Truthy(matched.val)
                                 THEN [all_tests EXCEPT ![res_idx].test_name = matched.val]
                                 ELSE all_tests
                            /\ trail' = [trail EXCEPT !.res =
                                 [rec EXCEPT !.after = all_tests'[res_idx].test_name]]
                            /\ res_idx' = res_idx + 1
                            /\ UNCHANGED pc
    /\ UNCHANGED <<doc, page_no, range_cache, existing_tests, report_id,
                   authoritative, store_vars, abn_vars, db_vars, exp_vars>>

\* Line 251.
InsertResults ==
    /\ pc = "resolve"
    /\ res_idx > Len(all_tests)
    /\ test_results' = insert_test_results(test_results, report_id, all_tests)
    /\ pc' = "done"
    /\ UNCHANGED <<patients, reports, doc, page_no, all_tests, range_cache,
                   existing_tests, res_idx, report_id, authoritative, llm_calls,
                   trail, abn_vars, db_vars, exp_vars>>

(***************************************************************************)
(* medical_db.py: the explanation cache (table test_explanations, lines    *)
(* 67-75, and the three functions of lines 196-233).  The table is the set *)
(* of its rows.  Its columns are TEXT with the default collation, so two   *)
(* key values are equal when they are the same text, letter case included. *)
(***************************************************************************)
ExplanationRow(n, c, a, e) ==
    [test_name |-> n, test_context |-> c, abnormal_type |-> a, explanation |-> e]

\* PRIMARY KEY (test_name, test_context, abnormal_type)
PrimaryKey(row) == <<row.test_name, row.test_context, row.abnormal_type>>

\* get_test_explanation: row[0] if row else None.  The parameters bound to
\* the statement are test_name.lower(), test_context.lower(), abnormal_type.
get_test_explanation(rows, test_name, test_context, abnormal_type) ==
    LET found == {r \in rows :
                     PrimaryKey(r) = <<Lower(test_name), Lower(test_context),
                                       abnormal_type>>}
    IN  IF found = {} THEN Null ELSE (CHOOSE r \in found : TRUE).explanation

\* save_test_explanation with a plain INSERT that keeps the rows in place
save_test_explanation_plain_insert(rows, test_name, test_context, abnormal_type, explanation) ==
    rows \cup {ExplanationRow(Lower(test_name), Lower(test_context),
                              abnormal_type, explanation)}

\* save_test_explanation: INSERT OR REPLACE removes the row of the same
\* primary key, then inserts
save_test_explanation(rows, test_name, test_context, abnormal_type, explanation) ==
    LET row == ExplanationRow(Lower(test_name), Lower(test_context),
                              abnormal_type, explanation)
    IN  {r \in rows : PrimaryKey(r) # PrimaryKey(row)} \cup {row}

\* clear_test_explanations: DELETE FROM test_explanations
clear_test_explanations(rows) == {}

\* ---- calls made on the cache
MaxOps == 2

ExpNames == { <<"t", "s", "h">>, <<"T", "S", "H">> }
ExpContexts == { <<"l", "f", "t">>, <<"L", "F", "T">> }
ExpTypes == { <<"h", "i", "g", "h">>, <<"H", "i", "g", "h">> }
ExpTexts == { <<"x">>, <<"y">> }

\* what a call of save_test_explanation was, and the result of no get yet
PutOp(n, c, a, e) == [op |-> "put", key |-> <<n, c, a>>, text |-> e]
NoGot == [key |-> <<<<>>, <<>>, <<>>>>, result |-> Null]

ExpInit ==
    /\ explanations = {}
    /\ exp_pc = "ready"
    /\ exp_hist = <<>>
    /\ exp_got = NoGot

ExpQuiet ==
    /\ explanations = {}
    /\ exp_pc = "off"
    /\ exp_hist = <<>>
    /\ exp_got = NoGot

SaveExplanation ==
    /\ exp_pc # "off"
    /\ Len(exp_hist) < MaxOps
    /\ \E n \in ExpNames, c \in ExpContexts, a \in ExpTypes, e \in ExpTexts :
          /\ explanations' = save_test_explanation(explanations, n, c, a, e)
          /\ exp_hist' = Append(exp_hist, PutOp(n, c, a, e))
    /\ exp_pc' = "saved"
    /\ exp_got' = NoGot
    /\ UNCHANGED <<abn_vars, store_vars, db_vars, ingest_vars>>

GetExplanation ==
    /\ exp_pc # "off"
    /\ \E n \in ExpNames, c \in ExpContexts, a \in ExpTypes :
          exp_got' = [key |-> <<n, c, a>>,
                      result |-> get_test_explanation(explanations, n, c, a)]
    /\ exp_pc' = "got"
    /\ UNCHANGED <<explanations, exp_hist, abn_vars, store_vars, db_vars, ingest_vars>>

ClearExplanations ==
    /\ exp_pc # "off"
    /\ Len(exp_hist) < MaxOps
    /\ explanations' = clear_test_explanations(explanations)
    /\ exp_hist' = Append(exp_hist, [op |-> "clear", key |-> <<<<>>, <<>>, <<>>>>,
                                     text |-> <<>>])
    /\ exp_pc' = "cleared"
    /\ exp_got' = NoGot
    /\ UNCHANGED <<abn_vars, store_vars, db_vars, ingest_vars>>

(***************************************************************************)
(* Specifications                                                          *)
(***************************************************************************)
\* the ingestion of one document into a new or an existing database
Init == AbnQuiet /\ DbQuiet /\ StoreInit /\ IngestInit /\ ExpQuiet
Next == AddDocument \/ ProcessPage \/ FinishMerge \/ ResolveTest \/ InsertResults
Spec == Init /\ [][Next]_vars

\* calls of insert_test_results on their own
InitDb == AbnQuiet /\ DbInit /\ StoreEmpty /\ IngestQuiet /\ ExpQuiet
NextDb == DbInsert
SpecDb == InitDb /\ [][NextDb]_vars

\* calls of get_abnormal_type on stored value and range texts
InitAbn == AbnInit /\ DbQuiet /\ StoreEmpty /\ IngestQuiet /\ ExpQuiet
NextAbn == Classify
SpecAbn == InitAbn /\ [][NextAbn]_vars

\* calls of the explanation cache functions, in any order
InitExp == AbnQuiet /\ DbQuiet /\ StoreEmpty /\ IngestQuiet /\ ExpInit
NextExp == SaveExplanation \/ GetExplanation \/ ClearExplanations
SpecExp == InitExp /\ [][NextExp]_vars

(***************************************************************************)
(* Properties                                                              *)
(***************************************************************************)
\* does historical test et differ from the new test of the resolution step r
\* in type, in panel or (case-insensitively) in unit?
Differs(et, r) ==
    \/ et.type # classify_test_type(r.before, r.unit).val
    \/ et.panel # extract_panel(r.before).val
    \/ Lower(et.unit) # Lower(r.unit)

\* a resolution step that got as far as building the candidate list
Resolved(r) == r.idx # 0 /\ ~(pc = "crashed" /\ trail.crash \in {"classify", "candidates"})

\* C1: a historical test that differs from the new test in type, panel or
\* unit (case-insensitively) is never among the candidates handed to the
\* matcher; with no candidate left the matching call is not made and the new
\* test keeps its extracted name.
C1_StructuralPreFilter ==
    Resolved(trail.res) =>
        /\ \A et \in existing_tests :
              Differs(et, trail.res) => et \notin trail.res.candidates
        /\ trail.res.candidates = {} =>
              /\ ~trail.res.invoked
              /\ trail.res.calls = 0
              /\ trail.res.after = trail.res.before

\* C1 witness: the matcher was invoked with a candidate while a differing
\* historical test of the patient was left out.
C1_Witness ==
    /\ Resolved(trail.res)
    /\ trail.res.invoked
    /\ \E et \in existing_tests : Differs(et, trail.res) /\ et \notin trail.res.candidates
    /\ \E et \in trail.res.candidates : ~Differs(et, trail.res)

\* the confidence a response carries is below 0.9 (a missing one counts as 0)
LowConfidence(c) == c.kind = "absent" \/ (c.kind = "num" /\ c.num < 90)

\* C2: with candidates present, a response whose confidence is below 0.9, or
\* whose match is the no_match sentinel or empty, leaves the name unchanged;
\* the name changes only on a match that is not the sentinel with a
\* confidence of at least 0.9.
C2_ConfidenceGate ==
    (trail.res.idx # 0 /\ trail.res.invoked) =>
        /\ ( /\ trail.res.resp.kind = "object"
             /\ \/ LowConfidence(trail.res.resp.out.confidence)
                \/ trail.res.resp.out.match = S_no_match
                \/ ~Truthy(trail.res.resp.out.match) )
           => trail.res.after = trail.res.before
        /\ trail.res.after # trail.res.before =>
              /\ trail.res.resp.kind = "object"
              /\ trail.res.resp.out.match # S_no_match
              /\ trail.res.resp.out.confidence.kind = "num"
              /\ trail.res.resp.out.confidence.num >= 90
              /\ trail.res.after = trail.res.resp.out.match

\* C2 witness: the matcher named a candidate with confidence 0.89 and the
\* name stayed as extracted.
C2_Witness ==
    /\ trail.res.invoked
    /\ trail.res.resp.kind = "object"
    /\ trail.res.resp.out.match = S_total_cholesterol
    /\ trail.res.resp.out.confidence = Conf("num", 89)
    /\ trail.res.before = S_cholesterol
    /\ trail.res.after = S_cholesterol
    /\ pc # "crashed"

\* a matching call that failed or whose answer is malformed
MalformedMatch(resp) ==
    \/ resp.kind \in {"conn_error", "timeout", "not_json", "no_response_key",
                      "raw_not_json", "raw_not_object"}
    \/ /\ resp.kind = "object"
       /\ \/ resp.out.match = Absent
          \/ resp.out.confidence.kind \in {"absent", "text"}

\* C3: whatever the matching call does (transport failure, timeout, body that
\* is not JSON, JSON that is no object, missing fields, confidence that is no
\* number), ai_match_test_name returns None and raises nothing, and the call
\* is made at most once per new test.
C3_MatcherFailsSafe ==
    (trail.res.idx # 0 /\ trail.res.invoked) =>
        /\ ~trail.res.raised
        /\ trail.res.calls <= 1
        /\ MalformedMatch(trail.res.resp) => trail.res.matched = Null

\* C4: once the range cache holds an extractor-supplied range for a key, no
\* regex-recovered range replaces it, so after the merge no observation
\* carries a recovered range for a key some page supplied a range for, and a
\* range the extractor supplied stays as it was.
C4_AuthoritativeRangeKept ==
    /\ \A k \in authoritative :
          k \in DOMAIN range_cache /\ range_cache[k].src = "extractor"
    /\ (pc = "resolve" /\ res_idx = 1) =>
          \A i \in 1..Len(all_tests) :
              all_tests[i].range_src = "recovered"
                  => MergeKey(all_tests[i]) \notin authoritative

\* C5: every persisted row has a name and a value that are not blank; the
\* observations of a batch whose name or value is missing, empty or blank
\* are skipped, so a batch of such observations alone adds no row.
C5_PersistedRowsNonEmpty ==
    /\ \A i \in 1..Len(test_results) :
          ~Blank(test_results[i].test_name) /\ ~Blank(test_results[i].value)
    /\ db_pc = "inserted" =>
          Len(test_results) <= db_batch.before + db_batch.kept

\* C5 witness: a batch of two observations, none of them keepable, was
\* inserted into a table that already held rows, and added none.
C5_Witness ==
    /\ db_pc = "inserted"
    /\ db_batch.size = 2
    /\ db_batch.kept = 0
    /\ db_batch.before > 0
    /\ Len(test_results) = db_batch.before

\* C6: when no patient name is detected the handler stops before any write:
\* patients, reports and test results are what they were.
C6_NoPatientNoWrite ==
    (pc # "idle" /\ ~Truthy(doc.patient_name)) =>
        /\ <<patients, reports, test_results>> = trail.store0
        /\ doc.text_read => pc = "halted"

\* C6 witness: the name pattern matched blanks only, the handler halted, and
\* the earlier patient's records are in place.
C6_Witness ==
    /\ pc = "halted"
    /\ doc.name_group = <<" ">>
    /\ patients = <<S_jo>>
    /\ Len(test_results) = 4

\* C7: once a patient name has been detected the handler never aborts:
\* whatever list the extractor returns (observations without a test_name or
\* a unit included) and whatever the matcher does, no exception leaves the
\* merge, the classification, the candidate filter or the matching.  (An
\* exception that leaves extract_tests_from_page itself is C8's subject.)
C7_IngestionNeverAborts ==
    Truthy(doc.patient_name) =>
        ~(pc = "crashed" /\ trail.crash \in {"merge_key", "classify", "candidates", "matcher"})

\* C8: an extraction call that ends in a connection failure, a timeout, a
\* non-2xx response or a body that does not parse as the expected JSON makes
\* extract_tests_from_page return an empty list, and raise nothing.
C8_ExtractionFailsSafe ==
    trail.ext.fail # "none" => (~trail.ext.raised /\ trail.ext.n = 0)

\* decimal numerals with their values, as num / den
Numeral(t, n, d) == [txt |-> t, num |-> n, den |-> d]
BoundNumerals ==
    { Numeral(<<"2">>, 2, 1), Numeral(<<"1", "0">>, 10, 1),
      Numeral(<<"3", ".", "5">>, 35, 10) }
ValueNumerals ==
    { Numeral(<<"1">>, 1, 1), Numeral(<<"2">>, 2, 1), Numeral(<<"3", ".", "5">>, 35, 10),
      Numeral(<<"7">>, 7, 1), Numeral(<<"1", "0">>, 10, 1), Numeral(<<"1", "2">>, 12, 1),
      Numeral(<<"-", "1">>, -1, 1) }

\* C9: for a range text low-high with numeric bounds 0 <= low < high and a
\* numeric value v, the result is low iff v < low, high iff v > high, and
\* none otherwise.
C9_IntervalClassification ==
    abn_pc = "classified" =>
        \A lo \in BoundNumerals, hi \in BoundNumerals, v \in ValueNumerals :
            ( /\ FloatLess(lo, hi)
              /\ normal_range = lo.txt \o <<"-">> \o hi.txt
              /\ raw_value = v.txt )
            => /\ ~abn_raised
               /\ abn_result = "low" <=> FloatLess(v, lo)
               /\ abn_result = "high" <=> FloatLess(hi, v)
               /\ abn_result = "none" <=> (~FloatLess(v, lo) /\ ~FloatLess(hi, v))

\* C9 witness: value 12 against the range 2-10 was classified high.
C9_Witness ==
    /\ abn_pc = "classified"
    /\ normal_range = <<"2", "-", "1", "0">>
    /\ raw_value = <<"1", "2">>
    /\ abn_result = "high"

\* a range text none of whose shapes parses: an interval whose split does not
\* give two numbers, or a limit that is no number
RangeParseFails(range) ==
    LET rng == Replace(Lower(range), <<" ">>, <<>>)
        parts == Split(rng, "-")
    IN  IF Contains(rng, <<"-">>)
        THEN Len(parts) # 2 \/ \E i \in 1..Len(parts) : ~ParseFloat(parts[i]).ok
        ELSE IF Contains(rng, S_upto) \/ StartsWith(rng, <<"<">>)
        THEN ~ParseFloat(Replace(Replace(rng, S_upto, <<>>), <<"<">>, <<>>)).ok
        ELSE IF Contains(rng, <<"m", "o", "r", "e", "t", "h", "a", "n">>)
                \/ StartsWith(rng, <<">">>)
        THEN ~ParseFloat(Replace(Replace(rng, <<"m", "o", "r", "e", "t", "h", "a", "n">>,
                                         <<>>), <<">">>, <<>>)).ok
        ELSE FALSE

\* C10: get_abnormal_type raises nothing, and returns none whenever the
\* value is missing or no number, the range is missing or empty, or the
\* range does not parse (a negative lower bound, more than one "-", a bound
\* or limit that is no number).
C10_ParseFailureGivesNone ==
    abn_pc = "classified" =>
        /\ ~abn_raised
        /\ ( \/ ~parse_value(raw_value).ok
             \/ ~Truthy(normal_range)
             \/ RangeParseFails(normal_range) )
           => abn_result = "none"

\* the triple with every component case-folded
FoldKey(k) == <<Lower(k[1]), Lower(k[2]), Lower(k[3])>>

\* C11: a put followed by a get whose three components differ from the put's
\* in letter case at most returns the text that was put.
C11_KeysCaseFolded ==
    ( /\ exp_pc = "got"
      /\ exp_hist # <<>>
      /\ exp_hist[Len(exp_hist)].op = "put"
      /\ FoldKey(exp_hist[Len(exp_hist)].key) = FoldKey(exp_got.key) )
    => exp_got.result = exp_hist[Len(exp_hist)].text

\* the calls made since the last clear-all: their positions in exp_hist
SinceClear ==
    {i \in 1..Len(exp_hist) :
        \A j \in i..Len(exp_hist) : exp_hist[j].op # "clear"}

\* the puts since the last clear-all whose key is k, letter case aside
PutsFor(k) == {i \in SinceClear : FoldKey(exp_hist[i].key) = FoldKey(k)}

\* the largest element of a non-empty set of positions
Latest(S) == CHOOSE i \in S : \A j \in S : j <= i

C13_NameFromCandidates ==
    [][ (pc = "resolve" /\ res_idx' = res_idx + 1) =>
           /\ Len(all_tests') = Len(all_tests)
           /\ \A i \in 1..Len(all_tests) : i # res_idx => all_tests'[i] = all_tests[i]
           /\ [all_tests'[res_idx] EXCEPT !.test_name = all_tests[res_idx].test_name]
                 = all_tests[res_idx]
           /\ all_tests'[res_idx].test_name \in
                 {all_tests[res_idx].test_name}
                    \cup {et.name : et \in trail'.res.candidates} ]_vars

====
